---- MODULE Spec2Model ----
(***************************************************************************)
(* 2D fluid simulation (createFluidSimulation and its WebGL utilities).    *)
(*                                                                         *)
(* The JavaScript driver is modelled as a state machine: one action per    *)
(* browser callback (page script, animation frame, pointer and touch       *)
(* handlers, resize, and the returned API).  A handler runs to completion, *)
(* as JavaScript does, so each action is the whole handler.  The driver    *)
(* talks to the GPU through GL calls; the model executes those calls on a  *)
(* GL machine (current program, texture units, uniforms, blend switch,     *)
(* framebuffer textures) and keeps, in calls, the calls of the most        *)
(* recent handler.                                                         *)
(*                                                                         *)
(* Numbers are exact rationals <<numerator, denominator>>; rounding of     *)
(* the GPU's floating point is not modelled.                               *)
(***************************************************************************)
EXTENDS Integers, Sequences, FiniteSets, TLC

VARIABLES
  window,     \* [devicePixelRatio]
  ext,        \* [supportLinearFiltering]
  canvas,     \* [clientWidth, clientHeight, width, height]
  dpr,        \* const dpr of createFluidSimulation
  config,     \* the live configuration object
  pointer,    \* the pointer object
  lastTime,   \* let lastTime
  simRes,     \* let simRes
  dyeRes,     \* let dyeRes
  density,    \* let density   (double FBO: closure variables fbo1, fbo2)
  velocity,   \* let velocity  (double FBO)
  divergence, \* let divergence (FBO id)
  curl,       \* let curl       (FBO id)
  pressure,   \* let pressure  (double FBO)
  fbo,        \* every framebuffer texture created: id -> [width, height, gen]
  data,       \* [tracked, texel]: the texel values, where they are followed
  gl,         \* GL machine: program, units, uniforms, blend, draws
  calls,      \* calls made by the most recent handler
  raf,        \* number of update callbacks requestAnimationFrame holds
  now,        \* timestamp of the last animation frame (ms)
  events,     \* events the browser has dispatched so far
  util        \* a double FBO of the WebGL utilities (read, write fields)

vars == <<window, ext, canvas, dpr, config, pointer, lastTime, simRes, dyeRes,
          density, velocity, divergence, curl, pressure, fbo, data, gl, calls,
          raf, now, events, util>>

----------------------------------------------------------------------------
(* Exact rational arithmetic.                                              *)

RECURSIVE Gcd(_, _)
Gcd(a, b) == IF b = 0 THEN a ELSE Gcd(b, a % b)

Abs(a) == IF a < 0 THEN -a ELSE a

Rat(n, d) ==
  LET g == Gcd(Abs(n), Abs(d))
  IN  IF d < 0 THEN <<(-n) \div g, (-d) \div g>> ELSE <<n \div g, d \div g>>

Zero == <<0, 1>>
One == <<1, 1>>
RInt(n) == <<n, 1>>
RNeg(a) == <<-a[1], a[2]>>
\* Sum and product of rationals in lowest terms, cancelling before multiplying.
RAdd(a, b) ==
  LET g == Gcd(a[2], b[2])
  IN  Rat(a[1] * (b[2] \div g) + b[1] * (a[2] \div g), (a[2] \div g) * b[2])
RSub(a, b) == RAdd(a, RNeg(b))
RMul(a, b) ==
  IF a[1] = 0 \/ b[1] = 0 THEN Zero
  ELSE LET g == Gcd(Abs(a[1]), b[2])
           h == Gcd(Abs(b[1]), a[2])
       IN  Rat((a[1] \div g) * (b[1] \div h), (a[2] \div h) * (b[2] \div g))
RDiv(a, b) == RMul(a, Rat(b[2], b[1]))
RAbs(a) == <<Abs(a[1]), a[2]>>
RLt(a, b) == a[1] * b[2] < b[1] * a[2]
RLe(a, b) == a[1] * b[2] <= b[1] * a[2]
RMin(a, b) == IF RLt(b, a) THEN b ELSE a
RFloor(a) == a[1] \div a[2]
\* Math.round: the nearest integer, halves upward
RRound(a) == RFloor(RAdd(a, <<1, 2>>))

\* The largest integer whose square is at most n (n >= 0), by bisection.
RECURSIVE ISqrtIn(_, _, _)
ISqrtIn(n, lo, hi) ==
  IF lo >= hi THEN lo
  ELSE LET mid == (lo + hi + 1) \div 2
       IN  IF mid * mid <= n THEN ISqrtIn(n, mid, hi) ELSE ISqrtIn(n, lo, mid - 1)

\* sqrt of the GPU, to three decimal places.
Sqrt(a) ==
  IF a[1] = 0 THEN Zero
  ELSE Rat(ISqrtIn(RFloor(RMul(a, RInt(1000000))), 0, 46340), 1000)

\* exp(-q) of the GPU for q >= 0, to a power of two: exp(-q) = 2^(-q log2 e)
\* with log2 e taken as 3/2 and the exponent rounded down; below 2^-24, the
\* least half-float, it is 0.
ExpNeg(q) ==
  LET n == RFloor(RMul(q, <<3, 2>>))
  IN  IF n > 24 THEN Zero ELSE <<1, 2 ^ n>>

----------------------------------------------------------------------------
(* Bounds of the model and the inputs the environment draws from.          *)

MaxEvents == 4          \* events the browser dispatches after start-up

DevicePixelRatios == {1, 3}
ClientSize0 == <<2, 2>>                     \* canvas client size at start-up
ClientSizes == {<<2, 2>>, <<4, 2>>}        \* client sizes a resize leads to
FrameDeltas == {8, 24}                      \* ms between animation frames
\* Pointer offsets (x, y) from the canvas' bounding rectangle (CSS pixels)
Positions == {<<0, 0>>, <<1, 1>>}
\* Values of Math.random() for a splat of multipleSplats: the hue, x, y and
\* the two draws behind dx and dy.  The start-up splats alternate between them.
Randoms == << << <<0, 1>>, <<1, 4>>, <<1, 4>>, <<3, 4>>, <<1, 2>> >>,
             << <<1, 2>>, <<3, 4>>, <<1, 2>>, <<1, 4>>, <<3, 4>> >> >>
Hues == {<<1, 2>>}                          \* Math.random() of generateColor

----------------------------------------------------------------------------
(* The GL machine.                                                         *)

Programs == {"display", "splat", "advection", "divergence", "curl",
             "vorticity", "pressure", "gradientSubtract"}

\* The sampler uniforms of each fragment shader.
Samplers(prog) ==
  CASE prog = "display" -> {"uTexture"}
    [] prog = "splat" -> {"uTarget"}
    [] prog = "advection" -> {"uVelocity", "uSource"}
    [] prog = "divergence" -> {"uVelocity"}
    [] prog = "curl" -> {"uVelocity"}
    [] prog = "vorticity" -> {"uVelocity", "uCurl"}
    [] prog = "pressure" -> {"uPressure", "uDivergence"}
    [] prog = "gradientSubtract" -> {"uPressure", "uVelocity"}

\* getUniforms: the active uniforms of each program, with GL's initial value 0.
Uniforms0 ==
  [prog \in Programs |->
    CASE prog = "display" -> [texelSize |-> <<Zero, Zero>>, uTexture |-> 0]
      [] prog = "splat" ->
           [texelSize |-> <<Zero, Zero>>, uTarget |-> 0, aspectRatio |-> Zero,
            color |-> <<Zero, Zero, Zero>>, point |-> <<Zero, Zero>>,
            radius |-> Zero]
      [] prog = "advection" ->
           [texelSize |-> <<Zero, Zero>>, uVelocity |-> 0, uSource |-> 0,
            dt |-> Zero, dissipation |-> Zero]
      [] prog = "divergence" -> [texelSize |-> <<Zero, Zero>>, uVelocity |-> 0]
      [] prog = "curl" -> [texelSize |-> <<Zero, Zero>>, uVelocity |-> 0]
      [] prog = "vorticity" ->
           [texelSize |-> <<Zero, Zero>>, uVelocity |-> 0, uCurl |-> 0,
            curl |-> Zero, dt |-> Zero]
      [] prog = "pressure" ->
           [texelSize |-> <<Zero, Zero>>, uPressure |-> 0, uDivergence |-> 0]
      [] prog = "gradientSubtract" ->
           [texelSize |-> <<Zero, Zero>>, uPressure |-> 0, uVelocity |-> 0]]

\* The context right after getContext: no program, no texture bound (0),
\* blending off.
Gl0 == [program |-> "none", units |-> [u \in 0..1 |-> 0],
        uniforms |-> Uniforms0, blend |-> FALSE, draws |-> 0]

\* Components stored by a texture of each format.
Components(format) ==
  CASE format = "R" -> 1 [] format = "RG" -> 2 [] format = "RGBA" -> 4


----------------------------------------------------------------------------
(* Execution of the driver's statements.  A state s is the record of the   *)
(* variables; a function body is the sequence of its statements:           *)
(*   <<"enter", f, args>>, <<"exit", f>>   entry to and return from f      *)
(*   <<"bind", p>>               p.bind()            (gl.useProgram)       *)
(*   <<"uniform", n, v>>         gl.uniform*(p.uniforms.n, v)              *)
(*   <<"sampler", n, ref, u>>    gl.uniform1i(p.uniforms.n, ref.attach(u)) *)
(*   <<"blend", b>>              gl.enable / gl.disable(gl.BLEND)          *)
(*   <<"blit", ref>>             blit(ref); <<>> is blit(null)             *)
(*   <<"swap", name>>            name.swap()                               *)
(*   <<"set", path, v>>          an assignment, as pointer.moved = false   *)
(*   <<"createFBO", name, ...>>  name = createFBO(...), and createDoubleFBO*)
(*   <<"requestAnimationFrame">> requestAnimationFrame(update)             *)
(* where ref is <<"curl">>, <<"velocity", "read">>, ...                    *)
(* The log calls receives a record per function entry and return, per draw *)
(* (with the program, the target, the textures read and the uniforms), per *)
(* swap (with the references it leaves) and per requestAnimationFrame;     *)
(* entries and returns carry the pointer object as it is at that moment.   *)

\* Faulty variant of the write getter that returns the read side.
writeReturningRead(d) == d.fbo1

\* createDoubleFBO: get read() returns fbo1, get write() returns fbo2.
read(d) == d.fbo1
write(d) == d.fbo2

\* Faulty variant of swap that forgets temp: both references end on fbo2.
swapLosingTemp(d) == [fbo1 |-> d.fbo2, fbo2 |-> d.fbo2]

\* swap() of createDoubleFBO: temp = fbo1; fbo1 = fbo2; fbo2 = temp.
swap(d) == [fbo1 |-> d.fbo2, fbo2 |-> d.fbo1]

\* The framebuffer a reference denotes in state s.
Ref(s, ref) ==
  IF Len(ref) = 1 THEN s[ref[1]]
  ELSE IF ref[2] = "read" THEN read(s[ref[1]]) ELSE write(s[ref[1]])

Log(s, e) == [s EXCEPT !.calls = Append(@, e)]

\* fbo.attach(id): gl.activeTexture(TEXTURE0 + id); gl.bindTexture(texture).
attach(s, id, unit) == [s EXCEPT !.gl.units[unit] = id]

\* The textures the current program's samplers read at a draw.
Reads(s) ==
  LET u == s.gl.uniforms[s.gl.program]
  IN  [n \in Samplers(s.gl.program) |-> s.gl.units[u[n]]]

\* r, with v computed first: the operands of a statement are values before
\* the statement runs.
After(v, r) == IF v = v THEN r ELSE r

Clamp(i, lo, hi) == IF i < lo THEN lo ELSE IF i > hi THEN hi ELSE i

Cells(w, h) == (0 .. w - 1) \X (0 .. h - 1)

\* A stored texel as a vec4: components the format does not store read 0,
\* and alpha 1.
vec4(v) ==
  <<v[1],
    IF Len(v) >= 2 THEN v[2] ELSE Zero,
    IF Len(v) >= 3 THEN v[3] ELSE Zero,
    IF Len(v) >= 4 THEN v[4] ELSE One>>

\* The texel (i, j) of texture id, under CLAMP_TO_EDGE.
Texel(s, id, i, j) ==
  vec4(s.data.texel[id][<<Clamp(i, 0, s.fbo[id].width - 1),
                          Clamp(j, 0, s.fbo[id].height - 1)>>])

Mix(a, b, w) == RAdd(RMul(RSub(One, w), a), RMul(w, b))

\* The bilinear mix of the texels (i, j) .. (i + 1, j + 1) at fractions fx, fy.
mix4(a, b, c, d, fx, fy) ==
  After(<<a, b, c, d, fx, fy>>,
        [k \in 1 .. 4 |-> After(<<Mix(a[k], b[k], fx), Mix(c[k], d[k], fx)>>,
                                Mix(Mix(a[k], b[k], fx), Mix(c[k], d[k], fx), fy))])
bilinear(s, id, i, j, fx, fy) ==
  After(<<i, j>>,
        mix4(Texel(s, id, i, j), Texel(s, id, i + 1, j),
             Texel(s, id, i, j + 1), Texel(s, id, i + 1, j + 1), fx, fy))

\* LINEAR filtering at texel coordinates (x, y), measured from the centre of
\* texel (0, 0).
filterLinear(s, id, x, y) ==
  After(<<x, y>>,
        bilinear(s, id, RFloor(x), RFloor(y),
                 RSub(x, RInt(RFloor(x))), RSub(y, RInt(RFloor(y)))))

\* texture2D(sampler, uv) on texture id: the nearest texel, or the bilinear
\* mix of the four texels around uv; texel (i, j) has its centre at
\* ((i + 1/2) / width, (j + 1/2) / height).
texture2D(s, id, uv) ==
  After(uv,
  IF s.fbo[id].param = "NEAREST"
  THEN Texel(s, id, RFloor(RMul(uv[1], RInt(s.fbo[id].width))),
                    RFloor(RMul(uv[2], RInt(s.fbo[id].height))))
  ELSE filterLinear(s, id, RSub(RMul(uv[1], RInt(s.fbo[id].width)), <<1, 2>>),
                           RSub(RMul(uv[2], RInt(s.fbo[id].height)), <<1, 2>>)))

\* The texture a sampler uniform of the current program reads.
Sampler(s, name) == s.gl.units[s.gl.uniforms[s.gl.program][name]]

\* baseVertexShader: the varyings at vUv under texelSize ts.
varyings(vUv, ts) ==
  After(vUv,
  [vUv |-> vUv,
   vL |-> <<RSub(vUv[1], ts[1]), vUv[2]>>,
   vR |-> <<RAdd(vUv[1], ts[1]), vUv[2]>>,
   vT |-> <<vUv[1], RAdd(vUv[2], ts[2])>>,
   vB |-> <<vUv[1], RSub(vUv[2], ts[2])>>])

\* The varyings at the centre of texel c of a width x height target.
Varyings(s, c, width, height) ==
  varyings(<<Rat(2 * c[1] + 1, 2 * width), Rat(2 * c[2] + 1, 2 * height)>>,
           s.gl.uniforms[s.gl.program].texelSize)

\* The fragment shaders.  Each is written in two parts: the texture reads,
\* and main's arithmetic on the values read.

displayMain(color) == <<color[1], color[2], color[3], One>>
displayShader(s, v) == displayMain(texture2D(s, Sampler(s, "uTexture"), v.vUv))

\* Faulty variant of the splat sum that writes the splat over the base.
splatSumOverwriting(base, w, color) ==
  After(<<base, w>>,
        <<RMul(w, color[1]), RMul(w, color[2]), RMul(w, color[3]), One>>)
\* base + exp(-dot(p, p) / radius) * color
splatSum(base, w, color) ==
  After(<<base, w>>,
        <<RAdd(base[1], RMul(w, color[1])), RAdd(base[2], RMul(w, color[2])),
          RAdd(base[3], RMul(w, color[3])), One>>)
splatWeight(px, py, radius) ==
  After(<<px, py>>, ExpNeg(RDiv(RAdd(RMul(px, px), RMul(py, py)), radius)))
splatMain(u, vUv, base) ==
  splatSum(base,
           splatWeight(RMul(RSub(vUv[1], u.point[1]), u.aspectRatio),
                       RSub(vUv[2], u.point[2]), u.radius),
           u.color)
splatShader(s, v) ==
  splatMain(s.gl.uniforms.splat, v.vUv, texture2D(s, Sampler(s, "uTarget"), v.vUv))

advectionCoord(u, vUv, vel) ==
  After(vel,
  <<RSub(vUv[1], RMul(RMul(u.dt, vel[1]), u.texelSize[1])),
    RSub(vUv[2], RMul(RMul(u.dt, vel[2]), u.texelSize[2]))>>)
\* Faulty variant of advection's product that leaves the dissipation out.
advectionMainUndamped(dissipation, src) ==
  After(src, [k \in 1 .. 4 |-> src[k]])
advectionMain(dissipation, src) ==
  After(src, [k \in 1 .. 4 |-> RMul(dissipation, src[k])])
advectionShader(s, v) ==
  advectionMain(s.gl.uniforms.advection.dissipation,
    texture2D(s, Sampler(s, "uSource"),
              advectionCoord(s.gl.uniforms.advection, v.vUv,
                             texture2D(s, Sampler(s, "uVelocity"), v.vUv))))

divergenceMain(L, R, T, B) ==
  After(<<L, R, T, B>>,
        <<RMul(<<1, 2>>, RSub(RAdd(RSub(R, L), T), B)), Zero, Zero, One>>)
divergenceShader(s, v) ==
  divergenceMain(texture2D(s, Sampler(s, "uVelocity"), v.vL)[1],
                 texture2D(s, Sampler(s, "uVelocity"), v.vR)[1],
                 texture2D(s, Sampler(s, "uVelocity"), v.vT)[2],
                 texture2D(s, Sampler(s, "uVelocity"), v.vB)[2])

curlMain(L, R, T, B) ==
  After(<<L, R, T, B>>,
        <<RMul(<<1, 2>>, RAdd(RSub(RSub(R, L), T), B)), Zero, Zero, One>>)
curlShader(s, v) ==
  curlMain(texture2D(s, Sampler(s, "uVelocity"), v.vL)[2],
           texture2D(s, Sampler(s, "uVelocity"), v.vR)[2],
           texture2D(s, Sampler(s, "uVelocity"), v.vT)[1],
           texture2D(s, Sampler(s, "uVelocity"), v.vB)[1])

\* velocity += force * dt, for force scaled by curl * C over len and force.y
\* negated
vorticityPush(u, C, vel, fx, fy, len) ==
  After(<<len, C, vel>>,
        <<RAdd(vel[1], RMul(u.dt, RMul(RDiv(fx, len), RMul(u.curl, C)))),
          RAdd(vel[2], RMul(u.dt, RNeg(RMul(RDiv(fy, len), RMul(u.curl, C))))),
          Zero, One>>)
\* length(force) + 0.0001
vorticityForce(u, C, vel, fx, fy) ==
  After(<<fx, fy>>,
        vorticityPush(u, C, vel, fx, fy,
                      RAdd(Sqrt(RAdd(RMul(fx, fx), RMul(fy, fy))), <<1, 10000>>)))
vorticityMain(u, L, R, T, B, C, vel) ==
  After(<<L, R, T, B>>,
        vorticityForce(u, C, vel, RMul(<<1, 2>>, RSub(RAbs(T), RAbs(B))),
                                  RMul(<<1, 2>>, RSub(RAbs(R), RAbs(L)))))
vorticityShader(s, v) ==
  vorticityMain(s.gl.uniforms.vorticity,
                texture2D(s, Sampler(s, "uCurl"), v.vL)[1],
                texture2D(s, Sampler(s, "uCurl"), v.vR)[1],
                texture2D(s, Sampler(s, "uCurl"), v.vT)[1],
                texture2D(s, Sampler(s, "uCurl"), v.vB)[1],
                texture2D(s, Sampler(s, "uCurl"), v.vUv)[1],
                texture2D(s, Sampler(s, "uVelocity"), v.vUv))

pressureMain(L, R, T, B, div) ==
  After(<<L, R, T, B, div>>,
        <<RMul(RSub(RAdd(RAdd(RAdd(L, R), B), T), div), <<1, 4>>),
          Zero, Zero, One>>)
\* Faulty variant of the pressure shader that reads its neighbours' alpha.
pressureShaderAlpha(s, v) ==
  pressureMain(texture2D(s, Sampler(s, "uPressure"), v.vL)[4],
               texture2D(s, Sampler(s, "uPressure"), v.vR)[4],
               texture2D(s, Sampler(s, "uPressure"), v.vT)[4],
               texture2D(s, Sampler(s, "uPressure"), v.vB)[4],
               texture2D(s, Sampler(s, "uDivergence"), v.vUv)[1])
pressureShader(s, v) ==
  pressureMain(texture2D(s, Sampler(s, "uPressure"), v.vL)[1],
               texture2D(s, Sampler(s, "uPressure"), v.vR)[1],
               texture2D(s, Sampler(s, "uPressure"), v.vT)[1],
               texture2D(s, Sampler(s, "uPressure"), v.vB)[1],
               texture2D(s, Sampler(s, "uDivergence"), v.vUv)[1])

gradientSubtractMain(L, R, T, B, vel) ==
  After(<<L, R, T, B, vel>>,
        <<RSub(vel[1], RSub(R, L)), RSub(vel[2], RSub(T, B)), Zero, One>>)
gradientSubtractShader(s, v) ==
  gradientSubtractMain(texture2D(s, Sampler(s, "uPressure"), v.vL)[1],
                       texture2D(s, Sampler(s, "uPressure"), v.vR)[1],
                       texture2D(s, Sampler(s, "uPressure"), v.vT)[1],
                       texture2D(s, Sampler(s, "uPressure"), v.vB)[1],
                       texture2D(s, Sampler(s, "uVelocity"), v.vUv))

\* gl_FragColor of the current program at v.
Fragment(s, v) ==
  After(v,
  CASE s.gl.program = "display" -> displayShader(s, v)
    [] s.gl.program = "splat" -> splatShader(s, v)
    [] s.gl.program = "advection" -> advectionShader(s, v)
    [] s.gl.program = "divergence" -> divergenceShader(s, v)
    [] s.gl.program = "curl" -> curlShader(s, v)
    [] s.gl.program = "vorticity" -> vorticityShader(s, v)
    [] s.gl.program = "pressure" -> pressureShader(s, v)
    [] s.gl.program = "gradientSubtract" -> gradientSubtractShader(s, v))

\* What a fragment src leaves in a texel holding dst: src, blended under
\* blendFunc(ONE, ONE_MINUS_SRC_ALPHA) when blending is on, cut to the n
\* components the target stores.
Blend(src, dst, on, n) ==
  After(<<src, dst>>,
        [k \in 1 .. n |->
           IF on THEN RAdd(src[k], RMul(RSub(One, src[4]), dst[k])) ELSE src[k]])

\* The value a draw leaves in texel c of the target.
Drawn(s, target, c) ==
  Blend(Fragment(s, Varyings(s, c, s.fbo[target].width, s.fbo[target].height)),
        Texel(s, target, c[1], c[2]), s.gl.blend,
        Components(s.fbo[target].format))

\* v, computed once and for all.
Once(v) == After(v, v)

\* The texels of the target after a draw.
Drawing(s, target) ==
  Once([c \in Cells(s.fbo[target].width, s.fbo[target].height) |->
          Once(Drawn(s, target, c))])

NextId(s) == Cardinality(DOMAIN s.fbo) + 1

\* Faulty variant of createFBO whose texture is not cleared: every component
\* starts as 1.
createFBOUncleared(s, width, height, format, param) ==
  [s EXCEPT !.fbo = @ @@ (NextId(s) :>
                            [width |-> width, height |-> height,
                             format |-> format, param |-> param, gen |-> 0]),
            !.gl.units[0] = NextId(s),
            !.data.texel =
               IF s.data.tracked
               THEN @ @@ (NextId(s) :>
                            [c \in Cells(width, height) |->
                               [k \in 1 .. Components(format) |-> One]])
               ELSE @]

\* createFBO: a new texture and framebuffer; texImage2D(..., null) and
\* gl.clear leave every texel 0; the texture stays bound to unit 0.
createFBO(s, width, height, format, param) ==
  LET id == NextId(s)
      f == [width |-> width, height |-> height, format |-> format,
            param |-> param, gen |-> 0]
      z == [c \in Cells(width, height) |-> [k \in 1 .. Components(format) |-> Zero]]
  IN  [s EXCEPT !.fbo = @ @@ (id :> f),
                !.gl.units[0] = id,
                !.data.texel = IF s.data.tracked THEN @ @@ (id :> z) ELSE @]

\* name = createFBO(...)
newFBO(s, name, width, height, format, param) ==
  [createFBO(s, width, height, format, param) EXCEPT ![name] = NextId(s)]

\* name = createDoubleFBO(...): fbo1 and fbo2 are created in this order.
createDoubleFBO(s, name, width, height, format, param) ==
  [createFBO(createFBO(s, width, height, format, param),
             width, height, format, param)
     EXCEPT ![name] = [fbo1 |-> NextId(s), fbo2 |-> NextId(s) + 1]]

\* blit(target): bind the target (0 is the canvas) and draw the quad: the
\* current program's fragment shader writes every texel of the target.
blit(s, target) ==
  Log([s EXCEPT
         !.gl.draws = @ + 1,
         !.fbo = IF target = 0 THEN @
                 ELSE [@ EXCEPT ![target].gen = s.gl.draws + 1],
         !.data.texel = IF target # 0 /\ s.data.tracked
                        THEN [@ EXCEPT ![target] = Drawing(s, target)]
                        ELSE @],
      [op |-> "draw", program |-> s.gl.program, target |-> target,
       reads |-> Reads(s), uniforms |-> s.gl.uniforms[s.gl.program],
       blend |-> s.gl.blend])

do(s, ins) ==
  CASE ins[1] = "enter" ->
         Log(s, [op |-> "enter", fn |-> ins[2], args |-> ins[3],
                 pointer |-> s.pointer])
    [] ins[1] = "exit" ->
         Log(s, [op |-> "exit", fn |-> ins[2], pointer |-> s.pointer])
    [] ins[1] = "set" ->
         IF Len(ins[2]) = 1 THEN [s EXCEPT ![ins[2][1]] = ins[3]]
         ELSE [s EXCEPT ![ins[2][1]][ins[2][2]] = ins[3]]
    [] ins[1] = "createFBO" ->
         newFBO(s, ins[2], ins[3], ins[4], ins[5], ins[6])
    [] ins[1] = "createDoubleFBO" ->
         createDoubleFBO(s, ins[2], ins[3], ins[4], ins[5], ins[6])
    [] ins[1] = "requestAnimationFrame" ->
         Log([s EXCEPT !.raf = @ + 1], [op |-> "requestAnimationFrame"])
    [] ins[1] = "bind" -> [s EXCEPT !.gl.program = ins[2]]
    [] ins[1] = "uniform" ->
         [s EXCEPT !.gl.uniforms[s.gl.program][ins[2]] = ins[3]]
    [] ins[1] = "sampler" ->
         [attach(s, Ref(s, ins[3]), ins[4])
            EXCEPT !.gl.uniforms[s.gl.program][ins[2]] = ins[4]]
    [] ins[1] = "blend" -> [s EXCEPT !.gl.blend = ins[2]]
    [] ins[1] = "blit" -> blit(s, IF ins[2] = <<>> THEN 0 ELSE Ref(s, ins[2]))
    [] ins[1] = "swap" ->
         Log([s EXCEPT ![ins[2]] = swap(@)],
             [op |-> "swap", buffer |-> ins[2],
              read |-> read(swap(s[ins[2]])), write |-> write(swap(s[ins[2]]))])

\* The statements code[lo .. hi] in order, on s.  The halves, and the test
\* on the first half's result, only keep the evaluation shallow.
RECURSIVE run(_, _, _, _)
RECURSIVE then(_, _, _, _)
then(t, code, lo, hi) == IF t.gl.draws >= 0 THEN run(t, code, lo, hi) ELSE t
run(s, code, lo, hi) ==
  IF lo > hi THEN s
  ELSE IF lo = hi THEN do(s, code[lo])
  ELSE then(run(s, code, lo, (lo + hi) \div 2), code, (lo + hi) \div 2 + 1, hi)

exec(s, code) == After(<<s.gl.draws, code>>, run(s, code, 1, Len(code)))


----------------------------------------------------------------------------
(* createFluidSimulation: configuration, buffers and simulation functions. *)

config0 ==
  [SIM_RESOLUTION |-> 128, DYE_RESOLUTION |-> 1024,
   DENSITY_DISSIPATION |-> <<3, 1>>, VELOCITY_DISSIPATION |-> <<45, 100>>,
   PRESSURE |-> <<8, 10>>, PRESSURE_ITERATIONS |-> 20, CURL |-> <<9, 1>>,
   SPLAT_RADIUS |-> <<12, 100>>, SPLAT_FORCE |-> 6000, SHADING |-> FALSE,
   COLORFUL |-> FALSE, PAUSED |-> FALSE]

pointer0 ==
  [x |-> 0, y |-> 0, dx |-> 0, dy |-> 0, down |-> FALSE, moved |-> FALSE,
   color |-> [r |-> Zero, g |-> Zero, b |-> Zero]]

\* canvas.width = Math.floor(canvas.clientWidth * dpr), and the height.
sizeCanvas(s) ==
  [s EXCEPT !.canvas.width = RFloor(RInt(s.canvas.clientWidth * s.dpr)),
            !.canvas.height = RFloor(RInt(s.canvas.clientHeight * s.dpr))]

\* Faulty variant of getResolution that gives the target to the longer side.
getResolutionLongerSide(s, resolution) ==
  LET aspectRatio == Rat(s.canvas.width, s.canvas.height)
  IN  IF RLt(aspectRatio, One)
      THEN [width |-> RRound(RMul(RInt(resolution), aspectRatio)),
            height |-> RRound(RInt(resolution))]
      ELSE [width |-> RRound(RInt(resolution)),
            height |-> RRound(RDiv(RInt(resolution), aspectRatio))]

getResolution(s, resolution) ==
  LET aspectRatio == Rat(s.canvas.width, s.canvas.height)
  IN  IF RLt(aspectRatio, One)
      THEN [width |-> RRound(RInt(resolution)),
            height |-> RRound(RDiv(RInt(resolution), aspectRatio))]
      ELSE [width |-> RRound(RMul(RInt(resolution), aspectRatio)),
            height |-> RRound(RInt(resolution))]

filterType(s) == IF s.ext.supportLinearFiltering THEN "LINEAR" ELSE "NEAREST"

\* Faulty variant of the allocations that sizes velocity as the dye.
allocateVelocityAsDye(s) ==
  << <<"createDoubleFBO", "density", s.dyeRes.width, s.dyeRes.height,
       "RGBA", filterType(s)>>,
     <<"createDoubleFBO", "velocity", s.dyeRes.width, s.dyeRes.height,
       "RG", filterType(s)>>,
     <<"createFBO", "divergence", s.simRes.width, s.simRes.height,
       "R", "NEAREST">>,
     <<"createFBO", "curl", s.simRes.width, s.simRes.height, "R", "NEAREST">>,
     <<"createDoubleFBO", "pressure", s.simRes.width, s.simRes.height,
       "R", "NEAREST">> >>

\* The five allocations, in the order of the source.
allocate(s) ==
  << <<"createDoubleFBO", "density", s.dyeRes.width, s.dyeRes.height,
       "RGBA", filterType(s)>>,
     <<"createDoubleFBO", "velocity", s.simRes.width, s.simRes.height,
       "RG", filterType(s)>>,
     <<"createFBO", "divergence", s.simRes.width, s.simRes.height,
       "R", "NEAREST">>,
     <<"createFBO", "curl", s.simRes.width, s.simRes.height, "R", "NEAREST">>,
     <<"createDoubleFBO", "pressure", s.simRes.width, s.simRes.height,
       "R", "NEAREST">> >>

\* simRes = getResolution(config.SIM_RESOLUTION), and dyeRes.
resolutions(s) ==
  [s EXCEPT !.simRes = getResolution(s, s.config.SIM_RESOLUTION),
            !.dyeRes = getResolution(s, s.config.DYE_RESOLUTION)]

\* The buffers allocated at the resolutions s holds.
allocated(s) == exec(s, allocate(s))

resizeCanvas(s) == allocated(resolutions(sizeCanvas(s)))

texelSize(res) == <<Rat(1, res.width), Rat(1, res.height)>>

\* The simulation functions are the sequences of their statements, for the
\* state s they are called in; exec runs them.

\* Faulty variant of splat that leaves the dye unswapped after rendering it.
splatWithoutSwap(s, x, y, dx, dy, color) ==
  << <<"enter", "splat", <<x, y, dx, dy, color>>>>,
     <<"bind", "splat">>,
     <<"sampler", "uTarget", <<"velocity", "read">>, 0>>,
     <<"uniform", "aspectRatio", Rat(s.canvas.width, s.canvas.height)>>,
     <<"uniform", "point", <<x, y>>>>,
     <<"uniform", "color", <<dx, dy, Zero>>>>,
     <<"uniform", "radius", RDiv(s.config.SPLAT_RADIUS, RInt(100))>>,
     <<"blit", <<"velocity", "write">>>>,
     <<"swap", "velocity">>,
     <<"sampler", "uTarget", <<"density", "read">>, 0>>,
     <<"uniform", "color", <<color.r, color.g, color.b>>>>,
     <<"blit", <<"density", "write">>>>,
     <<"exit", "splat">> >>

splat(s, x, y, dx, dy, color) ==
  << <<"enter", "splat", <<x, y, dx, dy, color>>>>,
     <<"bind", "splat">>,
     <<"sampler", "uTarget", <<"velocity", "read">>, 0>>,
     <<"uniform", "aspectRatio", Rat(s.canvas.width, s.canvas.height)>>,
     <<"uniform", "point", <<x, y>>>>,
     <<"uniform", "color", <<dx, dy, Zero>>>>,
     <<"uniform", "radius", RDiv(s.config.SPLAT_RADIUS, RInt(100))>>,
     <<"blit", <<"velocity", "write">>>>,
     <<"swap", "velocity">>,
     <<"sampler", "uTarget", <<"density", "read">>, 0>>,
     <<"uniform", "color", <<color.r, color.g, color.b>>>>,
     <<"blit", <<"density", "write">>>>,
     <<"swap", "density">>,
     <<"exit", "splat">> >>

\* pointer.moved = false; splat(pointer.x / canvas.width, ...)
pointerSplat(s) ==
  << <<"set", <<"pointer", "moved">>, FALSE>> >>
  \o splat(s, Rat(s.pointer.x, s.canvas.width),
              RSub(One, Rat(s.pointer.y, s.canvas.height)),
              RInt(10 * s.pointer.dx), RNeg(RInt(10 * s.pointer.dy)),
              s.pointer.color)

\* Faulty variant of applyInputs that splats on every movement, pressed or not.
applyInputsAnyMove(s) ==
  << <<"enter", "applyInputs", <<>>>> >>
  \o (IF s.pointer.moved THEN pointerSplat(s) ELSE <<>>)
  \o << <<"exit", "applyInputs">> >>

applyInputs(s) ==
  << <<"enter", "applyInputs", <<>>>> >>
  \o (IF s.pointer.moved /\ s.pointer.down THEN pointerSplat(s) ELSE <<>>)
  \o << <<"exit", "applyInputs">> >>

\* Faulty variant of the pressure loop with the iteration count hard-wired.
pressureLoopHardWired(n) ==
  [i \in 1 .. 3 * 20 |->
     CASE i % 3 = 1 -> <<"sampler", "uPressure", <<"pressure", "read">>, 1>>
       [] i % 3 = 2 -> <<"blit", <<"pressure", "write">>>>
       [] i % 3 = 0 -> <<"swap", "pressure">>]

\* Faulty variant of the pressure loop whose first iteration starts from the
\* other buffer of the pair, not from the field left in pressure.read.
pressureLoopFromWrite(n) ==
  [i \in 1 .. 3 * n |->
     CASE i = 1 -> <<"sampler", "uPressure", <<"pressure", "write">>, 1>>
       [] i > 1 /\ i % 3 = 1 -> <<"sampler", "uPressure", <<"pressure", "read">>, 1>>
       [] i % 3 = 2 -> <<"blit", <<"pressure", "write">>>>
       [] i % 3 = 0 -> <<"swap", "pressure">>]

\* for (let i = 0; i < config.PRESSURE_ITERATIONS; i++) { ... }
pressureLoop(n) ==
  [i \in 1 .. 3 * n |->
     CASE i % 3 = 1 -> <<"sampler", "uPressure", <<"pressure", "read">>, 1>>
       [] i % 3 = 2 -> <<"blit", <<"pressure", "write">>>>
       [] i % 3 = 0 -> <<"swap", "pressure">>]

step(s, dt) ==
    << <<"enter", "step", <<dt>>>>,
       <<"blend", FALSE>>,
       \* Calculate curl and vorticity
       <<"bind", "curl">>,
       <<"uniform", "texelSize", texelSize(s.simRes)>>,
       <<"sampler", "uVelocity", <<"velocity", "read">>, 0>>,
       <<"blit", <<"curl">>>>,
       \* Apply vorticity force
       <<"bind", "vorticity">>,
       <<"uniform", "texelSize", texelSize(s.simRes)>>,
       <<"sampler", "uVelocity", <<"velocity", "read">>, 0>>,
       <<"sampler", "uCurl", <<"curl">>, 1>>,
       <<"uniform", "curl", s.config.CURL>>,
       <<"uniform", "dt", dt>>,
       <<"blit", <<"velocity", "write">>>>,
       <<"swap", "velocity">>,
       \* Advect velocity
       <<"bind", "advection">>,
       <<"uniform", "texelSize", texelSize(s.simRes)>>,
       <<"sampler", "uVelocity", <<"velocity", "read">>, 0>>,
       <<"sampler", "uSource", <<"velocity", "read">>, 0>>,
       <<"uniform", "dt", dt>>,
       <<"uniform", "dissipation", s.config.VELOCITY_DISSIPATION>>,
       <<"blit", <<"velocity", "write">>>>,
       <<"swap", "velocity">>,
       \* Advect density
       <<"sampler", "uVelocity", <<"velocity", "read">>, 0>>,
       <<"sampler", "uSource", <<"density", "read">>, 1>>,
       <<"uniform", "dissipation", s.config.DENSITY_DISSIPATION>>,
       <<"blit", <<"density", "write">>>>,
       <<"swap", "density">>,
       \* Calculate divergence
       <<"bind", "divergence">>,
       <<"uniform", "texelSize", texelSize(s.simRes)>>,
       <<"sampler", "uVelocity", <<"velocity", "read">>, 0>>,
       <<"blit", <<"divergence">>>>,
       \* Clear pressure
       <<"bind", "pressure">>,
       <<"uniform", "texelSize", texelSize(s.simRes)>>,
       <<"sampler", "uDivergence", <<"divergence">>, 0>> >>
    \o pressureLoop(s.config.PRESSURE_ITERATIONS) \o
    << \* Subtract pressure gradient
       <<"bind", "gradientSubtract">>,
       <<"uniform", "texelSize", texelSize(s.simRes)>>,
       <<"sampler", "uPressure", <<"pressure", "read">>, 0>>,
       <<"sampler", "uVelocity", <<"velocity", "read">>, 1>>,
       <<"blit", <<"velocity", "write">>>>,
       <<"swap", "velocity">>,
       <<"exit", "step">> >>

render(s) ==
    << <<"enter", "render", <<>>>>,
       <<"blend", TRUE>>,
       <<"bind", "display">>,
       <<"sampler", "uTexture", <<"density", "read">>, 0>>,
       <<"blit", <<>>>>,
       <<"exit", "render">> >>

\* The ceiling of the time step, 0.016 s.
MaxDt == Rat(16, 1000)

\* Faulty variant of update that passes dt to step as computed.
updateUnclamped(s, time) ==
  << <<"enter", "update", <<time>>>>,
     <<"set", <<"lastTime">>, time>> >>
  \o applyInputs(s)
  \o step(s, Rat(time - s.lastTime, 1000))
  \o render(s)
  \o << <<"requestAnimationFrame">>, <<"exit", "update">> >>

\* Faulty variant of update that renders before it steps.
updateRenderFirst(s, time) ==
  << <<"enter", "update", <<time>>>>,
     <<"set", <<"lastTime">>, time>> >>
  \o applyInputs(s)
  \o render(s)
  \o step(s, RMin(Rat(time - s.lastTime, 1000), MaxDt))
  \o << <<"requestAnimationFrame">>, <<"exit", "update">> >>

\* dt = Math.min((time - lastTime) / 1000.0 || 0, 0.016); lastTime = time;
\* applyInputs(); step(dt); render(); requestAnimationFrame(update).
update(s, time) ==
  << <<"enter", "update", <<time>>>>,
     <<"set", <<"lastTime">>, time>> >>
  \o applyInputs(s)
  \o step(s, RMin(Rat(time - s.lastTime, 1000), MaxDt))
  \o render(s)
  \o << <<"requestAnimationFrame">>, <<"exit", "update">> >>

\* One call of update, run.
updated(s, time) == exec(s, update(s, time))


\* generateColor with Math.random() = h: a hue at saturation 0.7, value 0.8,
\* scaled by 0.2.
hsv(i, v, p, q, u) ==
  CASE i % 6 = 0 -> <<v, u, p>>
    [] i % 6 = 1 -> <<q, v, p>>
    [] i % 6 = 2 -> <<p, v, u>>
    [] i % 6 = 3 -> <<p, q, v>>
    [] i % 6 = 4 -> <<u, p, v>>
    [] i % 6 = 5 -> <<v, p, q>>
hsvAt(h6, sat, v, f) ==
  hsv(RFloor(h6), v, RMul(v, RSub(One, sat)), RMul(v, RSub(One, RMul(f, sat))),
      RMul(v, RSub(One, RMul(RSub(One, f), sat))))
dimmed(rgb) ==
  [r |-> RMul(rgb[1], <<2, 10>>), g |-> RMul(rgb[2], <<2, 10>>),
   b |-> RMul(rgb[3], <<2, 10>>)]
generateColor(h) ==
  dimmed(hsvAt(RMul(h, RInt(6)), <<7, 10>>, <<8, 10>>,
               RSub(RMul(h, RInt(6)), RInt(RFloor(RMul(h, RInt(6)))))))

\* multipleSplats(amount): rs[i] holds the values Math.random() returns in
\* iteration i, in the order the loop draws them.
RECURSIVE splatsFrom(_, _, _)
splatsFrom(s, rs, i) ==
  IF i > Len(rs) THEN <<>>
  ELSE splat(s, rs[i][2], rs[i][3],
             RMul(RInt(1000), RSub(rs[i][4], <<1, 2>>)),
             RMul(RInt(1000), RSub(rs[i][5], <<1, 2>>)),
             generateColor(rs[i][1]))
       \o splatsFrom(s, rs, i + 1)

multipleSplats(s, rs) == splatsFrom(s, rs, 1)

\* The number of splats multipleSplats is asked for at start-up.
InitialSplats == 5

\* createDoubleFBO of the WebGL utilities: read and write are fields, swap()
\* exchanges them through this.
utilCreateDoubleFBO == [read |-> 1, write |-> 2]
utilSwap(d) == [d EXCEPT !.read = d.write, !.write = d.read]

\* The page and the context createFluidSimulation starts from, and its
\* constants and variables before the first statement that uses them.
declarations(ratio, linear, size, tracked) ==
  [window |-> [devicePixelRatio |-> ratio],
   ext |-> [supportLinearFiltering |-> linear],
   canvas |-> [clientWidth |-> size[1], clientHeight |-> size[2],
               width |-> 0, height |-> 0],
   \* Math.min(window.devicePixelRatio || 1, 2)
   dpr |-> IF ratio < 2 THEN ratio ELSE 2,
   config |-> config0, pointer |-> pointer0,
   lastTime |-> 0, simRes |-> 0, dyeRes |-> 0, density |-> 0,
   velocity |-> 0, divergence |-> 0, curl |-> 0, pressure |-> 0,
   fbo |-> <<>>, data |-> [tracked |-> tracked, texel |-> <<>>],
   gl |-> Gl0, calls |-> <<>>, raf |-> 0, now |-> 0, events |-> 0,
   util |-> utilCreateDoubleFBO]

\* multipleSplats(5); update(0), at the end of createFluidSimulation.
init(s, rs) == updated(exec(s, multipleSplats(s, rs)), 0)

\* createFluidSimulation(canvas), to its return: the declarations with their
\* allocations, then resizeCanvas(); multipleSplats(5); update(0).
createFluidSimulation(ratio, linear, size, tracked, rs) ==
  init(resizeCanvas(
         allocated(resolutions(sizeCanvas(declarations(ratio, linear, size, tracked))))),
       rs)

----------------------------------------------------------------------------
(* Event handlers and the returned API.                                    *)

\* mousemove at offset (x, y) from the canvas' bounding rectangle.
mousemove(s, x, y) ==
  LET px == x * s.window.devicePixelRatio
      py == y * s.window.devicePixelRatio
      ddx == (px - s.pointer.x) * 1
      ddy == (py - s.pointer.y) * 1
  IN  [s EXCEPT !.pointer.x = px, !.pointer.y = py,
                !.pointer.dx = ddx, !.pointer.dy = ddy,
                !.pointer.moved = Abs(ddx) > 0 \/ Abs(ddy) > 0]

mousedown(s, h) ==
  [s EXCEPT !.pointer.down = TRUE, !.pointer.color = generateColor(h)]

mouseup(s) == [s EXCEPT !.pointer.down = FALSE]

touchmove(s, x, y) ==
  LET px == x * s.window.devicePixelRatio
      py == y * s.window.devicePixelRatio
      ddx == (px - s.pointer.x) * 10
      ddy == (py - s.pointer.y) * 10
  IN  [s EXCEPT !.pointer.x = px, !.pointer.y = py,
                !.pointer.dx = ddx, !.pointer.dy = ddy,
                !.pointer.moved = Abs(ddx) > 0 \/ Abs(ddy) > 0]

touchstart(s, x, y, h) ==
  [s EXCEPT !.pointer.x = x * s.window.devicePixelRatio,
            !.pointer.y = y * s.window.devicePixelRatio,
            !.pointer.down = TRUE, !.pointer.color = generateColor(h)]

touchend(s) == [s EXCEPT !.pointer.down = FALSE]

\* Faulty variant of setConfig that replaces the configuration object.
setConfigReplacing(s, newConfig) == [s EXCEPT !.config = newConfig]

\* Object.assign(config, newConfig)
setConfig(s, newConfig) ==
  [s EXCEPT !.config =
     [k \in DOMAIN s.config \cup DOMAIN newConfig |->
        IF k \in DOMAIN newConfig THEN newConfig[k] ELSE s.config[k]]]

pause(s) == [s EXCEPT !.config.PAUSED = TRUE]

resume(s) ==
  updated([s EXCEPT !.config.PAUSED = FALSE, !.lastTime = 0], 0)

\* The browser runs, in one animation frame, every callback requested before
\* the frame, each with the frame's timestamp.
RECURSIVE callbacks(_, _, _)
callbacks(s, time, n) ==
  IF n = 0 THEN s ELSE callbacks(updated(s, time), time, n - 1)

animationFrame(s, time) ==
  callbacks([s EXCEPT !.raf = 0, !.now = time], time, s.raf)

\* fluidSim.setConfig({...}) of the page script.
scriptConfig ==
  [SIM_RESOLUTION |-> 512, DYE_RESOLUTION |-> 1024,
   DENSITY_DISSIPATION |-> <<99, 100>>, VELOCITY_DISSIPATION |-> <<98, 100>>,
   PRESSURE |-> <<8, 10>>, PRESSURE_ITERATIONS |-> 20, CURL |-> <<4, 1>>,
   SPLAT_RADIUS |-> <<12, 100>>, SPLAT_FORCE |-> 5000, SHADING |-> FALSE,
   COLORFUL |-> FALSE]

\* Arguments the model passes to setConfig.
ConfigUpdates == {scriptConfig, [PRESSURE_ITERATIONS |-> 2]}

----------------------------------------------------------------------------
(* The state machine.                                                      *)

St ==
  [window |-> window, ext |-> ext, canvas |-> canvas, dpr |-> dpr,
   config |-> config, pointer |-> pointer, lastTime |-> lastTime,
   simRes |-> simRes, dyeRes |-> dyeRes, density |-> density,
   velocity |-> velocity, divergence |-> divergence, curl |-> curl,
   pressure |-> pressure, fbo |-> fbo, data |-> data, gl |-> gl,
   calls |-> <<>>, raf |-> raf, now |-> now, events |-> events + 1,
   util |-> util]

Is(s) ==
  \E t \in {s} :
    /\ window = t.window /\ ext = t.ext /\ canvas = t.canvas /\ dpr = t.dpr
    /\ config = t.config /\ pointer = t.pointer /\ lastTime = t.lastTime
    /\ simRes = t.simRes /\ dyeRes = t.dyeRes /\ density = t.density
    /\ velocity = t.velocity /\ divergence = t.divergence /\ curl = t.curl
    /\ pressure = t.pressure /\ fbo = t.fbo /\ data = t.data /\ gl = t.gl
    /\ calls = t.calls /\ raf = t.raf /\ now = t.now /\ events = t.events
    /\ util = t.util

Becomes(s) ==
  /\ events < MaxEvents
  /\ \E t \in {s} :
       /\ window' = t.window /\ ext' = t.ext /\ canvas' = t.canvas /\ dpr' = t.dpr
       /\ config' = t.config /\ pointer' = t.pointer /\ lastTime' = t.lastTime
       /\ simRes' = t.simRes /\ dyeRes' = t.dyeRes /\ density' = t.density
       /\ velocity' = t.velocity /\ divergence' = t.divergence /\ curl' = t.curl
       /\ pressure' = t.pressure /\ fbo' = t.fbo /\ data' = t.data /\ gl' = t.gl
       /\ calls' = t.calls /\ raf' = t.raf /\ now' = t.now /\ events' = t.events
       /\ util' = t.util

Init ==
  \E ratio \in DevicePixelRatios :
    Is(createFluidSimulation(ratio, TRUE, ClientSize0, FALSE,
         [i \in 1 .. InitialSplats |-> Randoms[1 + (i % 2)]]))

AnimationFrame ==
  /\ raf > 0
  /\ \E d \in FrameDeltas : Becomes(animationFrame(St, now + d))

MouseMove == \E p \in Positions : Becomes(mousemove(St, p[1], p[2]))
MouseDown == \E h \in Hues : Becomes(mousedown(St, h))
MouseUp == Becomes(mouseup(St))
TouchMove == \E p \in Positions : Becomes(touchmove(St, p[1], p[2]))
TouchStart ==
  \E p \in Positions, h \in Hues : Becomes(touchstart(St, p[1], p[2], h))
TouchEnd == Becomes(touchend(St))

\* The window is resized: the canvas' client size changes and the resize
\* listener runs.
Resize ==
  \E size \in ClientSizes :
    Becomes(resizeCanvas([St EXCEPT !.canvas.clientWidth = size[1],
                                    !.canvas.clientHeight = size[2]]))

SetConfig == \E c \in ConfigUpdates : Becomes(setConfig(St, c))
Pause == Becomes(pause(St))
Resume == Becomes(resume(St))
UtilSwap == Becomes([St EXCEPT !.util = utilSwap(@)])

Next ==
  \/ AnimationFrame
  \/ MouseMove
  \/ MouseDown
  \/ MouseUp
  \/ TouchMove
  \/ TouchStart
  \/ TouchEnd
  \/ Resize
  \/ SetConfig
  \/ Pause
  \/ Resume
  \/ UtilSwap

Spec == Init /\ [][Next]_vars

----------------------------------------------------------------------------
(* The simulation on small grids, with the texel values followed.          *)
(*                                                                         *)
(* The state is the one a resize leaves at a small resolution: fresh       *)
(* buffers of zeros, an animation frame requested.  The velocity and the   *)
(* dye are then drawn from bounded sets of fields, and the simulation      *)
(* functions run on them: splat, update(0) through resume(), and animation *)
(* frames while the velocity is zero (a frame with dt > 0 on a moving      *)
(* fluid leaves the range of the exact arithmetic).                        *)

KernelSizes == {<<2, 2>>, <<3, 2>>}
KernelIterations == {0, 1, 2}
KernelDissipations == {One, <<1, 2>>}
KernelVelocities == {<<0, 0>>, <<0, 1>>}
KernelCells == {<<0, 0>>, <<2, 1>>}
KernelImpulses == {<<1, 0>>, <<2, -1>>}
KernelColor == [r |-> <<1, 4>>, g |-> Zero, b |-> <<1, 8>>]

\* setConfig argument that brings the resolution down.
kernelConfig(k, d) ==
  [SIM_RESOLUTION |-> 2, DYE_RESOLUTION |-> 2, PRESSURE_ITERATIONS |-> k,
   DENSITY_DISSIPATION |-> d, VELOCITY_DISSIPATION |-> <<1, 2>>,
   SPLAT_RADIUS |-> <<25, 1>>]

\* A velocity field: u along x everywhere, and v more in the cell at.
VelocityField(w, h, u, at, v) ==
  [c \in Cells(w, h) |->
     IF c = at THEN <<RInt(u + v[1]), RInt(v[2])>> ELSE <<RInt(u), Zero>>]

\* A dye field: nothing, or a pattern that tells the cells apart.
DyeField(w, h, on) ==
  [c \in Cells(w, h) |->
     IF on THEN <<RInt(c[1] + 1), Zero, RInt(c[2]), One>>
     ELSE <<Zero, Zero, Zero, Zero>>]

\* The fields f and g put in the read sides of velocity and density.
holding(s, f, g) ==
  [s EXCEPT !.data.texel[read(s.velocity)] = f,
            !.data.texel[read(s.density)] = g]

kernelStart(size, k, d, u, at, v, on) ==
  holding(resizeCanvas(setConfig([declarations(1, TRUE, size, TRUE)
                                    EXCEPT !.raf = 1, !.events = 2],
                                 kernelConfig(k, d))),
          VelocityField(size[1], size[2], u, at, v),
          DyeField(size[1], size[2], on))

InitKernel ==
  \E size \in KernelSizes, k \in KernelIterations, d \in KernelDissipations,
     u \in {0, 1}, v \in KernelVelocities :
    Is(kernelStart(size, k, d, u, <<size[1] - 1, 1>>, v, TRUE))

\* The texels a double buffer's read side holds.
Field(s, name) == s.data.texel[read(s[name])]

IsZeroField(f) == \A c \in DOMAIN f : \A k \in DOMAIN f[c] : f[c][k] = Zero

\* The centre of cell c of the simulation grid, in [0, 1] x [0, 1].
Centre(s, c) ==
  <<Rat(2 * c[1] + 1, 2 * s.simRes.width), Rat(2 * c[2] + 1, 2 * s.simRes.height)>>

\* splat called as multipleSplats and applyInputs call it, at a cell's centre.
Splat ==
  \E at \in KernelCells \cap Cells(simRes.width, simRes.height),
     i \in KernelImpulses :
    Becomes(exec(St, splat(St, Centre(St, at)[1], Centre(St, at)[2],
                           RInt(i[1]), RInt(i[2]), KernelColor)))

\* An animation frame on a fluid at rest.
StillFrame ==
  /\ raf > 0
  /\ IsZeroField(data.texel[read(velocity)])
  /\ \E d \in FrameDeltas : Becomes(animationFrame(St, now + d))

NextKernel ==
  \/ Splat
  \/ Resume
  \/ StillFrame
  \/ Resize

SpecKernel == InitKernel /\ [][NextKernel]_vars

----------------------------------------------------------------------------
(* Reading the log of the most recent handler.                             *)

IsEnter(i, f) == calls[i].op = "enter" /\ calls[i].fn = f
IsExit(i, f) == calls[i].op = "exit" /\ calls[i].fn = f

\* The return of the call entered at calls[i].
Return(i) ==
  CHOOSE j \in i + 1 .. Len(calls) :
    /\ IsExit(j, calls[i].fn)
    /\ \A k \in i + 1 .. j - 1 : ~IsExit(k, calls[i].fn)

IsDraw(e) == e.op = "draw"
IsCall(e) == e.op \in {"enter", "exit"}
IsSplatEntry(e) == e.op = "enter" /\ e.fn = "splat"

\* The draws made between calls[i] and calls[j].
Draws(i, j) == SelectSeq(SubSeq(calls, i, j), IsDraw)

Pair(d) == {read(d), write(d)}

----------------------------------------------------------------------------
(* The frame's pass order.                                                 *)

PassOrder(n) ==
  <<"curl", "vorticity", "advection", "advection", "divergence">>
    \o [k \in 1 .. n |-> "pressure"] \o <<"gradientSubtract">>

\* C1: within one call of step the draws are, in this order and with nothing
\* else between them: curl, vorticity (into velocity), advection of velocity,
\* advection of the dye, divergence, config.PRESSURE_ITERATIONS pressure
\* passes, gradient subtraction (into velocity); the vorticity pass reads the
\* curl texture the curl pass has just written, and the first pressure pass
\* reads the divergence texture the divergence pass has just written.
StepPassOrder ==
  \A i \in DOMAIN calls :
    IsEnter(i, "step") =>
      LET d == Draws(i, Return(i))
          n == config.PRESSURE_ITERATIONS
      IN  /\ [k \in DOMAIN d |-> d[k].program] = PassOrder(n)
          /\ d[1].target = curl
          /\ d[2].reads.uCurl = d[1].target
          /\ d[2].target \in Pair(velocity)
          /\ d[3].reads.uSource \in Pair(velocity)
          /\ d[3].target \in Pair(velocity)
          /\ d[4].reads.uSource \in Pair(density)
          /\ d[4].target \in Pair(density)
          /\ d[5].target = divergence
          /\ d[6].reads.uDivergence = d[5].target
          /\ \A k \in 6 .. 5 + n : d[k].target \in Pair(pressure)
          /\ d[6 + n].target \in Pair(velocity)

\* A frame has run with PRESSURE_ITERATIONS changed from its default.
StepPassOrderWitness ==
  /\ config.PRESSURE_ITERATIONS = 2
  /\ \E i \in DOMAIN calls : IsEnter(i, "step") /\ Len(Draws(i, Return(i))) = 8

----------------------------------------------------------------------------
(* Double buffers.                                                         *)

DoubleFBO(name) ==
  CASE name = "density" -> density
    [] name = "velocity" -> velocity
    [] name = "pressure" -> pressure

\* The two buffers the latest createDoubleFBO call for name created: allocate
\* creates eight buffers, the density pair first, then the velocity pair,
\* divergence, curl and the pressure pair.
Created(name) ==
  LET base == Cardinality(DOMAIN fbo) - 8
  IN  CASE name = "density" -> {base + 1, base + 2}
        [] name = "velocity" -> {base + 3, base + 4}
        [] name = "pressure" -> {base + 7, base + 8}

IsSwapOfDensity(e) == e.op = "swap" /\ e.buffer = "density"
IsSwapOfVelocity(e) == e.op = "swap" /\ e.buffer = "velocity"
IsSwapOfPressure(e) == e.op = "swap" /\ e.buffer = "pressure"

\* The swaps of name in the log, in order.
Swaps(name) ==
  CASE name = "density" -> SelectSeq(calls, IsSwapOfDensity)
    [] name = "velocity" -> SelectSeq(calls, IsSwapOfVelocity)
    [] name = "pressure" -> SelectSeq(calls, IsSwapOfPressure)

\* C2: for every double buffer of either implementation, at creation and
\* after every swap, read and write are two distinct buffers, they are the
\* two buffers its constructor created, a swap exchanges the references, and
\* two swaps in a row restore them.
DoubleBufferDistinct ==
  /\ \A name \in {"density", "velocity", "pressure"} :
       LET d == DoubleFBO(name)
           w == Swaps(name)
       IN  /\ read(d) # write(d)
           /\ Pair(d) = Created(name)
           /\ read(swap(d)) = write(d) /\ write(swap(d)) = read(d)
           /\ swap(swap(d)) = d
           /\ \A k \in DOMAIN w :
                /\ w[k].read # w[k].write
                /\ {w[k].read, w[k].write} = Created(name)
                /\ k > 1 => w[k].read = w[k - 1].write /\ w[k].write = w[k - 1].read
           /\ w # <<>> => w[Len(w)].read = read(d) /\ w[Len(w)].write = write(d)
  /\ util.read # util.write
  /\ {util.read, util.write}
       = {utilCreateDoubleFBO.read, utilCreateDoubleFBO.write}
  /\ utilSwap(util).read = util.write /\ utilSwap(util).write = util.read
  /\ utilSwap(utilSwap(util)) = util

\* Both kinds of double buffer stand swapped, read being the buffer created
\* second, after a frame that swapped velocity three times.
DoubleBufferWitness ==
  /\ read(velocity) > write(velocity)
  /\ Len(Swaps("velocity")) = 3
  /\ Len(Swaps("pressure")) = 2
  /\ util.read = utilCreateDoubleFBO.write

----------------------------------------------------------------------------
(* The animation loop.                                                     *)

\* C3: the dt that update passes to step is never more than 0.016 s, on the
\* first call update(0), on the calls of resume() and on every animation frame.
StepDtClamped ==
  \A i \in DOMAIN calls :
    IsEnter(i, "step") => RLe(calls[i].args[1], <<16, 1000>>)

\* An animation frame came more than 16 ms after the time lastTime held, after
\* a resume() had reset lastTime, and step received 0.016.
StepDtClampedWitness ==
  /\ raf = 2
  /\ \E i \in DOMAIN calls :
       /\ IsEnter(i, "update") /\ calls[i].args[1] > 16
       /\ IsEnter(i + 3, "step") /\ calls[i + 3].args[1] = <<2, 125>>

\* The entries and returns of update's callees between calls[i] and calls[j],
\* splat's aside.
IsCallee(e) == IsCall(e) /\ e.fn # "splat"
Callees(i, j) ==
  LET c == SelectSeq(SubSeq(calls, i, j), IsCallee)
  IN  [k \in DOMAIN c |-> <<c[k].op, c[k].fn>>]

\* C4: every call of update runs applyInputs, then step once, then render,
\* each returning before the next is entered, whatever the pointer state.
UpdateOrder ==
  \A i \in DOMAIN calls :
    IsEnter(i, "update") =>
      Callees(i + 1, Return(i) - 1)
        = << <<"enter", "applyInputs">>, <<"exit", "applyInputs">>,
             <<"enter", "step">>, <<"exit", "step">>,
             <<"enter", "render">>, <<"exit", "render">> >>

\* An update whose applyInputs splatted, in a frame that ran two updates.
UpdateOrderWitness ==
  \E i, j \in DOMAIN calls :
    /\ i < j /\ IsEnter(i, "update") /\ IsEnter(j, "update")
    /\ IsEnter(i + 2, "splat")
    /\ ~IsEnter(j + 2, "splat")

\* C5: applyInputs calls splat once if pointer.moved and pointer.down hold
\* when it runs and not at all otherwise; when it calls splat, pointer.moved
\* is false when applyInputs returns.
ApplyInputsSplatsOnce ==
  \A i \in DOMAIN calls :
    IsEnter(i, "applyInputs") =>
      LET j == Return(i)
          n == Len(SelectSeq(SubSeq(calls, i, j), IsSplatEntry))
          p == calls[i].pointer
      IN  /\ n = IF p.moved /\ p.down THEN 1 ELSE 0
          /\ n = 1 => ~calls[j].pointer.moved

\* applyInputs has run with a movement pending and the pointer pressed.
ApplyInputsSplatsOnceWitness ==
  \E i \in DOMAIN calls :
    /\ IsEnter(i, "applyInputs")
    /\ calls[i].pointer.moved /\ calls[i].pointer.down
    /\ IsEnter(i + 1, "splat")

\* C6: whenever applyInputs has run in a frame, pointer.moved is false, for
\* every interleaving of pointer events between the frames.
MovedResetEveryFrame ==
  \A j \in DOMAIN calls :
    IsExit(j, "applyInputs") => ~calls[j].pointer.moved

----------------------------------------------------------------------------
(* The numeric kernel: splat, advection and the pressure projection.       *)

IsStepEntry(e) == e.op = "enter" /\ e.fn = "step"

\* The number of times the most recent handler called step.
Steps == Len(SelectSeq(calls, IsStepEntry))

\* The points the kernel splats at, in the current grid.
SplatCells == KernelCells \cap Cells(simRes.width, simRes.height)

\* The weight exp(-|p|^2 / radius) the splat shader gives cell c for a splat
\* at point.
Weight(c, point) ==
  splatWeight(RMul(RSub(Centre(St, c)[1], point[1]),
                   Rat(canvas.width, canvas.height)),
              RSub(Centre(St, c)[2], point[2]),
              RDiv(config.SPLAT_RADIUS, RInt(100)))

\* The velocity field after splat(x, y, dx, dy, KernelColor) on s.
Splatted(s, point, i) ==
  Field(exec(s, splat(s, point[1], point[2], RInt(i[1]), RInt(i[2]),
                      KernelColor)),
        "velocity")

\* C7: from any velocity field, a splat at a point with impulse I2 adds
\* weight(cell) * I2 to every cell's previous value, unclamped, and a second
\* splat there with impulse I1 leaves velocity.read equal, cell by cell, to
\* one splat at the point with impulse I1 + I2 on the field the first started
\* from.
SplatAdditive ==
  [][(calls' # <<>> /\ calls'[1].op = "enter" /\ calls'[1].fn = "splat")
     => /\ data.texel'[read(velocity')]
             = [c \in Cells(simRes.width, simRes.height) |->
                  <<RAdd(Field(St, "velocity")[c][1],
                         RMul(Weight(c, <<calls'[1].args[1], calls'[1].args[2]>>),
                              calls'[1].args[3])),
                    RAdd(Field(St, "velocity")[c][2],
                         RMul(Weight(c, <<calls'[1].args[1], calls'[1].args[2]>>),
                              calls'[1].args[4]))>>]
        /\ \A i1 \in KernelImpulses :
             Splatted(St', <<calls'[1].args[1], calls'[1].args[2]>>, i1)
               = Splatted(St, <<calls'[1].args[1], calls'[1].args[2]>>,
                          <<i1[1] + RFloor(calls'[1].args[3]),
                            i1[2] + RFloor(calls'[1].args[4])>>)]_vars

\* Two splats have run since the fluid was at rest, the second at the point of
\* the first: every cell holds its weight times the sum of the two impulses.
SplatAdditiveWitness ==
  /\ gl.draws = 4
  /\ IsEnter(1, "splat")
  /\ ~IsZeroField(Field(St, "velocity"))
  /\ \E i1 \in KernelImpulses :
       \A c \in Cells(simRes.width, simRes.height) :
         Field(St, "velocity")[c]
           = <<RMul(Weight(c, <<calls[1].args[1], calls[1].args[2]>>),
                    RAdd(RInt(i1[1]), calls[1].args[3])),
               RMul(Weight(c, <<calls[1].args[1], calls[1].args[2]>>),
                    RAdd(RInt(i1[2]), calls[1].args[4]))>>

RECURSIVE RPow(_, _)
RPow(d, n) == IF n = 0 THEN One ELSE RMul(d, RPow(d, n - 1))

\* The field f with every component scaled by q.
Scaled(f, q) == [c \in DOMAIN f |-> [k \in DOMAIN f[c] |-> RMul(q, f[c][k])]]

\* C8: over an all-zero velocity field an advection pass writes, in every
\* cell, the dissipation times the cell's value: n passes scale the dye by
\* DENSITY_DISSIPATION^n, and leave it as it is when the dissipation is 1.
ZeroVelocityAdvection ==
  [][(/\ IsZeroField(data.texel[read(velocity)])
      /\ IsZeroField(data.texel'[read(velocity')])
      /\ Len(SelectSeq(calls', IsStepEntry)) >= 1
      /\ Len(SelectSeq(calls', IsSplatEntry)) = 0)
     => data.texel'[read(density')]
          = Scaled(data.texel[read(density)],
                   RPow(config.DENSITY_DISSIPATION,
                        Len(SelectSeq(calls', IsStepEntry))))]_vars

\* A frame has run step twice on a fluid at rest with dissipation 1/2, after
\* the step of a resume(): the dye is an eighth of what it was at the start.
ZeroVelocityAdvectionWitness ==
  /\ Steps = 2
  /\ config.DENSITY_DISSIPATION = <<1, 2>>
  /\ IsZeroField(Field(St, "velocity"))
  /\ Field(St, "density")
       = Scaled(DyeField(simRes.width, simRes.height, TRUE), <<1, 8>>)

\* The divergence of velocity.read, as the divergence pass of step computes it.
Divergence(s) ==
  Drawing(exec(s, << <<"bind", "divergence">>,
                     <<"uniform", "texelSize", texelSize(s.simRes)>>,
                     <<"sampler", "uVelocity", <<"velocity", "read">>, 0>> >>),
          s.divergence)

\* The sum of |f[c][1]| over the cells of S.
RECURSIVE SumAbs(_, _)
SumAbs(f, S) ==
  IF S = {} THEN Zero
  ELSE RAdd(RAbs(f[CHOOSE c \in S : TRUE][1]),
            SumAbs(f, S \ {CHOOSE c \in S : TRUE}))

\* The mean absolute value of a one-component field.
MeanAbs(f) == RDiv(SumAbs(f, DOMAIN f), RInt(Cardinality(DOMAIN f)))

\* C9: when step has run with PRESSURE_ITERATIONS >= 1 on a velocity whose
\* divergence, as the divergence pass computed it, was not all zero, the mean
\* absolute divergence of the velocity after the gradient subtraction is
\* strictly smaller than it was before the projection.
ProjectionReducesDivergence ==
  (/\ Steps >= 1
   /\ config.PRESSURE_ITERATIONS >= 1
   /\ ~IsZeroField(data.texel[divergence]))
  => RLt(MeanAbs(Divergence(St)), MeanAbs(data.texel[divergence]))

\* C10: when the pressure read buffer is all zero as the projection starts
\* and the divergence pass leaves all zeros, the pressure read buffer is all
\* zero after the k Jacobi iterations, for k = 0, 1, 2.
ZeroPressureFixedPoint ==
  [][(/\ IsZeroField(data.texel[read(pressure)])
      /\ Len(SelectSeq(calls', IsStepEntry)) = 1
      /\ IsZeroField(data.texel'[divergence']))
     => IsZeroField(data.texel'[read(pressure')])]_vars

IsPressureDraw(e) == e.op = "draw" /\ e.program = "pressure"

\* step has run two Jacobi iterations on a uniform, moving velocity field: the
\* divergence is zero, and so is the pressure.
ZeroPressureFixedPointWitness ==
  /\ Steps = 1
  /\ Len(SelectSeq(calls, IsPressureDraw)) = 2
  /\ ~IsZeroField(Field(St, "velocity"))
  /\ IsZeroField(data.texel[divergence])
  /\ IsZeroField(Field(St, "pressure"))

----------------------------------------------------------------------------
(* The configuration and the buffers.                                      *)

\* C11: setConfig(c) gives every field of c its value in c and leaves the
\* other fields of the configuration, the pointer, the resolutions and every
\* buffer (references, textures and texels) as they were.
SetConfigMerges ==
  [][\A c \in ConfigUpdates :
       Becomes(setConfig(St, c))
       => /\ DOMAIN config' = DOMAIN config \cup DOMAIN c
          /\ \A k \in DOMAIN c : config'[k] = c[k]
          /\ \A k \in DOMAIN config \ DOMAIN c : config'[k] = config[k]
          /\ UNCHANGED <<pointer, simRes, dyeRes, density, velocity,
                         divergence, curl, pressure, fbo, data>>]_vars

\* The page script's configuration and then PRESSURE_ITERATIONS = 2 have been
\* merged into a paused simulation: the later call kept the fields of the
\* earlier one, PAUSED is still set, and the grids are those of start-up.
SetConfigMergesWitness ==
  /\ config.SIM_RESOLUTION = 512
  /\ config.CURL = <<4, 1>>
  /\ config.PRESSURE_ITERATIONS = 2
  /\ config.PAUSED
  /\ simRes.width = 128

----------------------------------------------------------------------------
(* Faults: configurations out of range, and allocations that fail.         *)

\* Arguments of setConfig outside the ranges the simulation is meant for: a
\* dissipation above 1 and a splat radius of 0.
InvalidConfigs == {[DENSITY_DISSIPATION |-> <<3, 2>>], [SPLAT_RADIUS |-> Zero]}

\* The allocation of resizeCanvas that throws: 2 is velocity, 4 is curl.
AllocationFailures == {2, 4}

\* resizeCanvas when its k-th allocation throws: the statements before it have
\* run, and the exception leaves the listener (no handler catches it).
resizeCanvasThrowing(s, k) ==
  exec(resolutions(sizeCanvas(s)),
       SubSeq(allocate(resolutions(sizeCanvas(s))), 1, k - 1))

SetInvalidConfig == \E c \in InvalidConfigs : Becomes(setConfig(St, c))

ResizeFails ==
  \E size \in ClientSizes, k \in AllocationFailures :
    Becomes(resizeCanvasThrowing([St EXCEPT !.canvas.clientWidth = size[1],
                                            !.canvas.clientHeight = size[2]], k))

NextFaults ==
  \/ AnimationFrame
  \/ MouseMove
  \/ MouseDown
  \/ MouseUp
  \/ TouchMove
  \/ TouchStart
  \/ TouchEnd
  \/ Resize
  \/ SetConfig
  \/ Pause
  \/ Resume
  \/ UtilSwap
  \/ SetInvalidConfig
  \/ ResizeFails

SpecFaults == Init /\ [][NextFaults]_vars

\* A configuration with a non-positive resolution, a non-positive splat
\* radius, or a dissipation outside (0, 1].
ConfigurationError(c) ==
  \/ \E k \in {"SIM_RESOLUTION", "DYE_RESOLUTION"} \cap DOMAIN c : c[k] <= 0
  \/ \E k \in {"SPLAT_RADIUS"} \cap DOMAIN c : RLe(c[k], Zero)
  \/ \E k \in {"DENSITY_DISSIPATION", "VELOCITY_DISSIPATION"} \cap DOMAIN c :
       RLe(c[k], Zero) \/ RLt(One, c[k])

\* C12: setConfig rejects a configuration with a non-positive resolution or
\* splat radius or a dissipation outside (0, 1]: the live configuration after
\* the call is the one before it.
SetConfigRejectsInvalid ==
  [][\A c \in InvalidConfigs \cup ConfigUpdates :
       (ConfigurationError(c) /\ Becomes(setConfig(St, c)))
       => config' = config]_vars

\* The textures behind the five buffers of state s.
Buffers(s) ==
  {read(s.density), write(s.density), read(s.velocity), write(s.velocity),
   s.divergence, s.curl, read(s.pressure), write(s.pressure)}

\* Texture id of state s has the size res.
HasSize(s, id, res) == s.fbo[id].width = res.width /\ s.fbo[id].height = res.height

\* C13: when resizeCanvas has run, density, velocity, divergence, curl and
\* pressure are eight textures that did not exist before, every texel of them
\* zero; density has the size getResolution(DYE_RESOLUTION) and the others the
\* size getResolution(SIM_RESOLUTION), for the canvas as resized; the
\* configuration and the pointer are as before.
ResizeReallocates ==
  [][Resize
     => /\ Cardinality(Buffers(St')) = 8
        /\ Buffers(St') \cap DOMAIN fbo = {}
        /\ \A id \in Buffers(St') : IsZeroField(data'.texel[id])
        /\ canvas'.width = canvas'.clientWidth * dpr
        /\ canvas'.height = canvas'.clientHeight * dpr
        /\ \A id \in {read(density'), write(density')} :
             HasSize(St', id, getResolution(St', config.DYE_RESOLUTION))
        /\ \A id \in Buffers(St') \ {read(density'), write(density')} :
             HasSize(St', id, getResolution(St', config.SIM_RESOLUTION))
        /\ simRes' = getResolution(St', config.SIM_RESOLUTION)
        /\ dyeRes' = getResolution(St', config.DYE_RESOLUTION)
        /\ config' = config /\ pointer' = pointer]_vars

\* The canvas went from 3x2 to 4x2 after a splat and a frame had filled the
\* fields: the grids are 4x2, and velocity and dye hold zeros again.
ResizeReallocatesWitness ==
  /\ calls = <<>>
  /\ Cardinality(DOMAIN fbo) = 16
  /\ simRes = [width |-> 4, height |-> 2]
  /\ \E id \in DOMAIN fbo \ Buffers(St) :
       fbo[id].width = 3 /\ fbo[id].gen > 0 /\ ~IsZeroField(data.texel[id])
  /\ IsZeroField(Field(St, "velocity"))
  /\ IsZeroField(Field(St, "density"))

\* C14: when an allocation of resizeCanvas throws, density, velocity,
\* divergence, curl, pressure, simRes and dyeRes are what they were before the
\* resize started.
FailedResizeKeepsBuffers ==
  [][ResizeFails
     => UNCHANGED <<density, velocity, divergence, curl, pressure,
                    simRes, dyeRes>>]_vars

----------------------------------------------------------------------------
(* Pointer splats.                                                         *)

\* Values of config.SPLAT_FORCE: the default and the page script's.
SplatForces == {config0.SPLAT_FORCE, scriptConfig.SPLAT_FORCE}

\* The impulse (dx, dy) applyInputs passes to splat in state s, where the
\* pointer has moved while down: the arguments of its call of splat.
PointerImpulse(s) == <<applyInputs(s)[3][3][3], applyInputs(s)[3][3][4]>>

\* C15: config.SPLAT_FORCE controls the impulse of a pointer splat: for the
\* pointer delta of the state, applyInputs passes a different impulse to splat
\* under a different SPLAT_FORCE.
SplatForceControlsImpulse ==
  (pointer.moved /\ pointer.down)
  => \A f \in SplatForces \ {config.SPLAT_FORCE} :
       PointerImpulse([St EXCEPT !.config.SPLAT_FORCE = f]) # PointerImpulse(St)

----------------------------------------------------------------------------
(* The passes and the double buffers.                                      *)

\* The textures the draw e samples.
Sampled(e) == {e.reads[n] : n \in DOMAIN e.reads}

\* The programs whose passes render to the write side of a double buffer.
PingPong == {"splat", "vorticity", "advection", "pressure", "gradientSubtract"}

IsPingPongDraw(e) == e.op = "draw" /\ e.program \in PingPong

\* C16: no pass of step or splat samples the texture it renders to.  A pass
\* on velocity, dye or pressure renders to the write side of its double buffer
\* and samples the read side of the same one (the swap that follows makes the
\* target the read side and a sampled texture the write side); a Jacobi pass
\* after another samples, as uPressure, the texture the one before rendered
\* to; the curl and divergence passes do not sample their targets.
PassesReadOpposite ==
  \A i \in DOMAIN calls :
    IsDraw(calls[i])
    => /\ calls[i].target \notin Sampled(calls[i])
       /\ IsPingPongDraw(calls[i])
          => /\ i < Len(calls)
             /\ calls[i + 1].op = "swap"
             /\ calls[i + 1].read = calls[i].target
             /\ calls[i + 1].write \in Sampled(calls[i])
       /\ (calls[i].program = "pressure" /\ i > 2 /\ IsPressureDraw(calls[i - 2]))
          => calls[i].reads.uPressure = calls[i - 2].target

\* A frame has splatted and then run step with at least two Jacobi passes.
PassesReadOppositeWitness ==
  /\ \E i \in DOMAIN calls : IsDraw(calls[i]) /\ calls[i].program = "splat"
  /\ \E i \in DOMAIN calls :
       /\ i > 2
       /\ IsPressureDraw(calls[i])
       /\ IsPressureDraw(calls[i - 2])
       /\ calls[i].reads.uPressure = calls[i - 2].target
  /\ \E i \in DOMAIN calls : IsDraw(calls[i]) /\ calls[i].program = "curl"

IsSwap(e) == e.op = "swap"

\* C17: every swap comes right after a render into the write side of its
\* double buffer, the only render into that buffer since its previous swap;
\* every render into a write side is followed at once by the swap of its
\* buffer, before anything samples the buffer again.  So the read side of
\* density, velocity and pressure is the side rendered last, and the display
\* pass samples the dye texture rendered last.
WriteThenSwap ==
  /\ \A j \in DOMAIN calls :
       IsSwap(calls[j])
       => /\ j > 1
          /\ IsDraw(calls[j - 1])
          /\ calls[j - 1].target = calls[j].read
          /\ \A k \in 1 .. j - 2 :
               (IsDraw(calls[k])
                /\ calls[k].target \in {calls[j].read, calls[j].write})
               => \E m \in k + 1 .. j - 1 :
                    IsSwap(calls[m]) /\ calls[m].buffer = calls[j].buffer
  /\ \A i \in DOMAIN calls :
       IsPingPongDraw(calls[i])
       => /\ i < Len(calls)
          /\ IsSwap(calls[i + 1])
          /\ calls[i + 1].read = calls[i].target
          /\ calls[i + 1].write # calls[i].target
  /\ \A d \in {density, velocity, pressure} :
       fbo[read(d)].gen >= fbo[write(d)].gen
  /\ \A i \in DOMAIN calls :
       (IsDraw(calls[i]) /\ calls[i].program = "display")
       => /\ calls[i].reads.uTexture \in Pair(density)
          /\ \A k \in 1 .. i - 1 :
               (/\ IsDraw(calls[k])
                /\ calls[k].target \in Pair(density)
                /\ \A m \in k + 1 .. i - 1 :
                     ~(IsDraw(calls[m]) /\ calls[m].target \in Pair(density)))
               => calls[i].reads.uTexture = calls[k].target

\* A handler has splatted and run a frame: the dye was rendered by a splat and
\* then by the advection, each time into the side the other had left, and the
\* display pass sampled the second.
WriteThenSwapWitness ==
  \E i, j, k \in DOMAIN calls :
    /\ i < j /\ j < k
    /\ IsDraw(calls[i]) /\ calls[i].program = "splat"
    /\ calls[i].target = write(density)
    /\ IsDraw(calls[j]) /\ calls[j].program = "advection"
    /\ calls[j].target = read(density)
    /\ IsDraw(calls[k]) /\ calls[k].program = "display"
    /\ calls[k].reads.uTexture = calls[j].target
    /\ fbo[read(density)].gen > fbo[write(density)].gen

IsAdvectionDraw(e) == e.op = "draw" /\ e.program = "advection"

\* C18: in every frame, the first one included (update(0) inside
\* createFluidSimulation), the dissipation passed to the advection of the
\* velocity and to the advection of the dye lies in (0, 1].
DissipationInRange ==
  \A i \in DOMAIN calls :
    IsAdvectionDraw(calls[i])
    => /\ RLt(Zero, calls[i].uniforms.dissipation)
       /\ RLe(calls[i].uniforms.dissipation, One)

----------------------------------------------------------------------------
(* Grid resolutions.                                                       *)

\* getResolution(gl, resolution) of the WebGL utilities, for a drawing buffer
\* of w x h.
utilGetResolution(w, h, resolution) ==
  LET aspectRatio == IF RLt(Rat(w, h), One) THEN RDiv(One, Rat(w, h)) ELSE Rat(w, h)
      max == RRound(RMul(RInt(resolution), aspectRatio))
      min == RRound(RInt(resolution))
  IN  IF w > h THEN [width |-> max, height |-> min]
      ELSE [width |-> min, height |-> max]

\* Client sizes of the canvas: square, wide and tall.
ResolutionSizes == {<<1, 1>>, <<3, 2>>, <<2, 3>>}
\* Target resolutions (SIM_RESOLUTION, DYE_RESOLUTION) given to setConfig.
TargetResolutions == {<<5, 8>>, <<128, 1024>>}

InitResolution ==
  \E ratio \in DevicePixelRatios, size \in ResolutionSizes :
    Is(createFluidSimulation(ratio, TRUE, size, FALSE,
         [i \in 1 .. InitialSplats |-> Randoms[1 + (i % 2)]]))

SetResolution ==
  \E r \in TargetResolutions :
    Becomes(setConfig(St, [SIM_RESOLUTION |-> r[1], DYE_RESOLUTION |-> r[2]]))

ResizeTo ==
  \E size \in ResolutionSizes :
    Becomes(resizeCanvas([St EXCEPT !.canvas.clientWidth = size[1],
                                    !.canvas.clientHeight = size[2]]))

NextResolution ==
  \/ SetResolution
  \/ ResizeTo

SpecResolution == InitResolution /\ [][NextResolution]_vars

\* The grid res has target as its shorter side, and as its longer side the
\* target scaled by the canvas' longer side over its shorter side, rounded.
ShorterSideIsTarget(res, w, h, target) ==
  IF w >= h
  THEN res.height = target /\ res.width = RRound(Rat(target * w, h))
  ELSE res.width = target /\ res.height = RRound(Rat(target * h, w))

\* The grid res has target as its longer side, and as its shorter side the
\* target scaled by the canvas' shorter side over its longer side, rounded.
LongerSideIsTarget(res, w, h, target) ==
  IF w >= h
  THEN res.width = target /\ res.height = RRound(Rat(target * h, w))
  ELSE res.height = target /\ res.width = RRound(Rat(target * w, h))

\* C19, as stated: the grids getResolution returns in resizeCanvas have the
\* target resolution as their larger dimension and the target scaled by the
\* aspect ratio as the other.
ResolutionLargerIsTarget ==
  [][ResizeTo
     => /\ LongerSideIsTarget(simRes', canvas'.width, canvas'.height,
                              config.SIM_RESOLUTION)
        /\ LongerSideIsTarget(dyeRes', canvas'.width, canvas'.height,
                              config.DYE_RESOLUTION)]_vars

\* C19, amended: the grids getResolution returns in resizeCanvas have the
\* target resolution as their smaller dimension and the target scaled by the
\* canvas' longer side over its shorter side, rounded, as the larger; the
\* getResolution of the WebGL utilities returns the same grids.
ResolutionSmallerIsTarget ==
  [][ResizeTo
     => /\ ShorterSideIsTarget(simRes', canvas'.width, canvas'.height,
                               config.SIM_RESOLUTION)
        /\ ShorterSideIsTarget(dyeRes', canvas'.width, canvas'.height,
                               config.DYE_RESOLUTION)
        /\ simRes' = utilGetResolution(canvas'.width, canvas'.height,
                                       config.SIM_RESOLUTION)
        /\ dyeRes' = utilGetResolution(canvas'.width, canvas'.height,
                                       config.DYE_RESOLUTION)]_vars

\* A tall canvas resized at the targets 5 and 8: the grids are 5x8 and 8x12.
ResolutionSmallerIsTargetWitness ==
  /\ calls = <<>>
  /\ canvas.width < canvas.height
  /\ config.SIM_RESOLUTION = 5
  /\ simRes = [width |-> 5, height |-> 8]
  /\ dyeRes = [width |-> 8, height |-> 12]
  /\ fbo[read(velocity)].height = 8

\* The grids of state s match its resolutions: velocity, pressure, curl and
\* divergence have the size simRes, and density the size dyeRes.
GridsMatch(s) ==
  /\ \A id \in {read(s.density), write(s.density)} : HasSize(s, id, s.dyeRes)
  /\ \A id \in Buffers(s) \ {read(s.density), write(s.density)} :
       HasSize(s, id, s.simRes)

\* The passes of step that set texelSize.
Stencil == {"curl", "vorticity", "advection", "divergence", "pressure",
            "gradientSubtract"}

\* The draws of the most recent handler used the texelSize of the simulation
\* grid.
TexelSizeMatches ==
  \A i \in DOMAIN calls :
    (IsDraw(calls[i]) /\ calls[i].program \in Stencil)
    => calls[i].uniforms.texelSize
         = <<Rat(1, fbo[read(velocity)].width), Rat(1, fbo[read(velocity)].height)>>

\* C20: in every state after initialization simRes is the size of the
\* velocity, pressure, curl and divergence textures and dyeRes the size of the
\* density textures, and the texelSize the passes of step were given is that
\* of the simulation grid; a setConfig, also one that changes SIM_RESOLUTION
\* and DYE_RESOLUTION, changes neither simRes, dyeRes nor any buffer.
ResolutionsMatchGrids ==
  [][/\ GridsMatch(St) /\ TexelSizeMatches
     /\ GridsMatch(St')
     /\ TexelSizeMatches'
     /\ SetConfig => UNCHANGED <<simRes, dyeRes, density, velocity, divergence,
                                 curl, pressure, fbo, data>>]_vars

\* The page script's resolutions (512 and 1024) are configured and a frame
\* has run on the 128 grid of start-up, with texelSize 1/128.
ResolutionsMatchGridsWitness ==
  /\ config.SIM_RESOLUTION = 512
  /\ simRes.width = 128
  /\ fbo[read(pressure)].width = 128
  /\ \E i \in DOMAIN calls :
       /\ IsPressureDraw(calls[i])
       /\ calls[i].uniforms.texelSize[1] = <<1, 128>>

----------------------------------------------------------------------------
(* The pointer near the far edges of the canvas.                           *)

\* A canvas of 4 x 2 CSS pixels, and offsets of the pointer from its bounding
\* rectangle that lie inside it.
PointerClientSize == <<4, 2>>
PointerOffsets == {<<1, 1>>, <<3, 1>>}

InitPointer ==
  \E ratio \in DevicePixelRatios :
    Is(createFluidSimulation(ratio, TRUE, PointerClientSize, FALSE,
         [i \in 1 .. InitialSplats |-> Randoms[1 + (i % 2)]]))

MouseMoveInside ==
  \E p \in PointerOffsets : Becomes(mousemove(St, p[1], p[2]))
TouchMoveInside ==
  \E p \in PointerOffsets : Becomes(touchmove(St, p[1], p[2]))
TouchStartInside ==
  \E p \in PointerOffsets, h \in Hues :
    Becomes(touchstart(St, p[1], p[2], h))

NextPointer ==
  \/ AnimationFrame
  \/ MouseMoveInside
  \/ MouseDown
  \/ MouseUp
  \/ TouchMoveInside
  \/ TouchStartInside
  \/ TouchEnd

SpecPointer == InitPointer /\ [][NextPointer]_vars

\* The pointer position p, in device pixels, is inside the canvas element:
\* it is an offset inside the client box times window.devicePixelRatio.
InsideCanvas(p) ==
  /\ 0 <= p.x /\ p.x < canvas.clientWidth * window.devicePixelRatio
  /\ 0 <= p.y /\ p.y < canvas.clientHeight * window.devicePixelRatio

InUnit(r) == RLe(Zero, r) /\ RLe(r, One)

\* C21: whenever applyInputs calls splat, the position it passes,
\* (pointer.x / canvas.width, 1 - pointer.y / canvas.height), lies in
\* [0,1] x [0,1], for every device pixel ratio (above 2 included) and every
\* pointer position inside the canvas.
SplatPositionInUnitSquare ==
  \A i \in DOMAIN calls :
    (/\ IsEnter(i, "applyInputs")
     /\ calls[i].pointer.moved /\ calls[i].pointer.down
     /\ InsideCanvas(calls[i].pointer))
    => \E j \in i + 1 .. Return(i) :
         /\ IsEnter(j, "splat")
         /\ InUnit(calls[j].args[1])
         /\ InUnit(calls[j].args[2])

----------------------------------------------------------------------------
(* The pressure field from one frame to the next.                          *)

\* The positions of the Jacobi passes in the log of the handler that has just
\* run, and the last of a set of positions.
JacobiPasses == {k \in DOMAIN calls' : IsPressureDraw(calls'[k])}
Latest(S) == CHOOSE k \in S : \A m \in S : m <= k

----------------------------------------------------------------------------
(* Pausing and resuming.                                                   *)

\* C23: while the simulation is paused (after pause() and before the next
\* resume()), no animation frame invokes step: an animation frame that
\* begins with config.PAUSED set does not enter step, and leaves the
\* velocity, dye and pressure buffers and the contents of their textures as
\* they were.
PausedFrameSkipsStep ==
  [][(config.PAUSED /\ AnimationFrame)
     => /\ \A i \in DOMAIN calls' : ~IsStepEntry(calls'[i])
        /\ UNCHANGED <<velocity, density, pressure>>
        /\ \A id \in Pair(velocity) \cup Pair(density) \cup Pair(pressure) :
             fbo'[id] = fbo[id]
    ]_vars

\* C24: after any sequence of pause() and resume() calls at most one
\* requestAnimationFrame callback for update is pending, a single animation
\* loop, so that no browser animation frame runs step more than once.
SingleAnimationLoop ==
  /\ raf <= 1
  /\ \A i, j \in DOMAIN calls :
       (IsEnter(i, "step") /\ IsEnter(j, "step")) => i = j

----------------------------------------------------------------------------
(* Move events between two frames.                                         *)

\* The state right after a move event with a non-zero delta has arrived with
\* the pointer down: the simulation has started, the pointer has been pressed
\* at the origin, and has moved, by mouse or by touch, to the offset (1, 1).
InitMoved ==
  \E ratio \in DevicePixelRatios, h \in Hues, touch \in BOOLEAN :
    LET s == mousedown(createFluidSimulation(ratio, TRUE, ClientSize0, FALSE,
                         [i \in 1 .. InitialSplats |-> Randoms[1 + (i % 2)]]),
                       h)
    IN  Is([(IF touch THEN touchmove(s, 1, 1) ELSE mousemove(s, 1, 1))
              EXCEPT !.calls = <<>>])

\* The pointer stays down: further move events, and animation frames.
NextMoved ==
  \/ MouseMove
  \/ TouchMove
  \/ AnimationFrame

SpecMoved == InitMoved /\ [][NextMoved]_vars

\* C25: a pointer movement is never lost before it is consumed.  After a
\* mousemove or touchmove with a non-zero delta has arrived with the pointer
\* down, and while the pointer stays down, the applyInputs of the next
\* animation frame (the first one: now is still 0) issues a splat, whatever
\* further move events have arrived before it.
MovementSplatsNextFrame ==
  [][(now = 0 /\ AnimationFrame)
     => \E i \in DOMAIN calls' :
          /\ calls'[i].op = "enter" /\ calls'[i].fn = "applyInputs"
          /\ IsSplatEntry(calls'[i + 1])
    ]_vars

====
